---- MODULE Spec2Model ----
(***************************************************************************)
(* Model of the universal scraper (src/hi.py): the batch pipeline          *)
(* fetch -> extract -> save_to_mongodb over the URLs of a CSV file, the    *)
(* MD5 document identity, the MongoDB upsert and the JSON export.          *)
(*                                                                         *)
(* Python str values are tuples of code points; JSON values are tagged     *)
(* records [t |-> type, v |-> value]; a dict is a function from keys.      *)
(* datetime.now() is read as the variable clock, taken to be               *)
(* non-decreasing; its unit is the second of the collection name.          *)
(***************************************************************************)
EXTENDS Integers, Sequences, FiniteSets, TLC

\* Bounds of the model.
MaxRuns == 2
MaxClock == 2

(***************************************************************************)
(* Strings used as inputs: CSV cells and URLs.                             *)
(***************************************************************************)
\* 'http://a/p1'
U1 == << 104, 116, 116, 112, 58, 47, 47, 97, 47, 112, 49 >>
\* 'http://a/p1/'
U1slash == << 104, 116, 116, 112, 58, 47, 47, 97, 47, 112, 49, 47 >>
\* 'http://A/p1'
U1case == << 104, 116, 116, 112, 58, 47, 47, 65, 47, 112, 49 >>
\* 'http://a/p?x&y'
Uq12 == << 104, 116, 116, 112, 58, 47, 47, 97, 47, 112, 63, 120, 38, 121 >>
\* 'http://a/p?y&x'
Uq21 == << 104, 116, 116, 112, 58, 47, 47, 97, 47, 112, 63, 121, 38, 120 >>
\* 'http://a/p2'
U2 == << 104, 116, 116, 112, 58, 47, 47, 97, 47, 112, 50 >>
\* ' http://a/p2<TAB>'
U2padded == << 32, 104, 116, 116, 112, 58, 47, 47, 97, 47, 112, 50, 9 >>
\* '  '
Blank == << 32, 32 >>
\* '?'
Junk == << 63 >>
Urls == { U1, U1slash, U1case, Uq12, Uq21, U2, U2padded, Blank, Junk, <<>> }

(***************************************************************************)
(* hashlib.md5(url.encode()).hexdigest(): RFC 1321 on 32-bit words kept as *)
(* <<high 16 bits, low 16 bits>>.                                          *)
(***************************************************************************)
W16 == 65536

RECURSIVE And16(_, _, _)
And16(x, y, n) == IF n = 0 THEN 0 ELSE (x % 2) * (y % 2) + 2 * And16(x \div 2, y \div 2, n - 1)

RECURSIVE Xor16(_, _, _)
Xor16(x, y, n) == IF n = 0 THEN 0 ELSE ((x + y) % 2) + 2 * Xor16(x \div 2, y \div 2, n - 1)

RECURSIVE Pow2(_)
Pow2(n) == IF n = 0 THEN 1 ELSE 2 * Pow2(n - 1)

WAnd(a, b) == << And16(a[1], b[1], 16), And16(a[2], b[2], 16) >>
WXor(a, b) == << Xor16(a[1], b[1], 16), Xor16(a[2], b[2], 16) >>
WNot(a) == << W16 - 1 - a[1], W16 - 1 - a[2] >>
WOr(a, b) == WNot(WAnd(WNot(a), WNot(b)))
WAdd(a, b) == LET lo == a[2] + b[2] IN << (a[1] + b[1] + lo \div W16) % W16, lo % W16 >>
WRotl(a, s) == LET b == IF s >= 16 THEN << a[2], a[1] >> ELSE a
                   r == s % 16
               IN IF r = 0 THEN b
                  ELSE << ((b[1] * Pow2(r)) % W16) + (b[2] \div Pow2(16 - r)),
                          ((b[2] * Pow2(r)) % W16) + (b[1] \div Pow2(16 - r)) >>

MD5K == << <<55146, 42104>>, <<59591, 46934>>, <<9248, 28891>>, <<49597, 52974>>,
           <<62844, 4015>>, <<18311, 50730>>, <<43056, 17939>>, <<64838, 38145>>,
           <<27008, 39128>>, <<35652, 63407>>, <<65535, 23473>>, <<35164, 55230>>,
           <<27536, 4386>>, <<64920, 29075>>, <<42617, 17294>>, <<18868, 2081>>,
           <<63006, 9570>>, <<49216, 45888>>, <<9822, 23121>>, <<59830, 51114>>,
           <<54831, 4189>>, <<580, 5203>>, <<55457, 59009>>, <<59347, 64456>>,
           <<8673, 52710>>, <<49975, 2006>>, <<62677, 3463>>, <<17754, 5357>>,
           <<43491, 59653>>, <<64751, 41976>>, <<26479, 729>>, <<36138, 19594>>,
           <<65530, 14658>>, <<34673, 63105>>, <<28061, 24866>>, <<64997, 14348>>,
           <<42174, 59972>>, <<19422, 53161>>, <<63163, 19296>>, <<48831, 48240>>,
           <<10395, 32454>>, <<60065, 10234>>, <<54511, 12421>>, <<1160, 7429>>,
           <<55764, 53305>>, <<59099, 39397>>, <<8098, 31992>>, <<50348, 22117>>,
           <<62505, 8772>>, <<17194, 65431>>, <<43924, 9127>>, <<64659, 41017>>,
           <<25947, 22979>>, <<36620, 52370>>, <<65519, 62589>>, <<34180, 24017>>,
           <<28584, 32335>>, <<65068, 59104>>, <<41729, 17172>>, <<19976, 4513>>,
           <<63315, 32386>>, <<48442, 62005>>, <<10967, 53947>>, <<60294, 54161>> >>
MD5S == << 7, 12, 17, 22, 5, 9, 14, 20, 4, 11, 16, 23, 6, 10, 15, 21 >>
MD5Init == << <<26437, 8961>>, <<61389, 43913>>, <<39098, 56574>>, <<4146, 21622>> >>

\* The message, the 0x80 byte, zeros to 56 mod 64, and the bit length (little-endian).
MD5Pad(msg) == LET n == Len(msg)
                   bits == 8 * n
               IN msg \o << 128 >> \o [k \in 1..((119 - n) % 64) |-> 0]
                      \o << bits % 256, (bits \div 256) % 256, (bits \div W16) % 256, 0, 0, 0, 0, 0 >>

MD5Word(p, blk, g) == LET o == 64 * blk + 4 * g
                      IN << p[o + 4] * 256 + p[o + 3], p[o + 2] * 256 + p[o + 1] >>

MD5F(i, B, C, D) == IF i < 16 THEN WOr(WAnd(B, C), WAnd(WNot(B), D))
                    ELSE IF i < 32 THEN WOr(WAnd(D, B), WAnd(WNot(D), C))
                    ELSE IF i < 48 THEN WXor(B, WXor(C, D))
                    ELSE WXor(C, WOr(B, WNot(D)))

MD5G(i) == IF i < 16 THEN i
           ELSE IF i < 32 THEN (5 * i + 1) % 16
           ELSE IF i < 48 THEN (3 * i + 5) % 16
           ELSE (7 * i) % 16

\* rounds i .. last of one block on the state st = <<A, B, C, D>>
RECURSIVE MD5Rounds(_, _, _, _, _)
MD5Rounds(i, last, st, p, blk) ==
  IF i > last \/ Len(st) # 4 THEN st
  ELSE LET F == WAdd(WAdd(MD5F(i, st[2], st[3], st[4]), st[1]),
                     WAdd(MD5K[i + 1], MD5Word(p, blk, MD5G(i))))
           nb == WAdd(st[2], WRotl(F, MD5S[4 * (i \div 16) + (i % 4) + 1]))
       IN MD5Rounds(i + 1, last, << st[4], nb, st[2], st[3] >>, p, blk)

RECURSIVE MD5Blocks(_, _, _)
MD5Blocks(blk, st, p) ==
  IF 64 * blk >= Len(p) THEN st
  ELSE LET r == MD5Rounds(48, 63, MD5Rounds(32, 47, MD5Rounds(16, 31, MD5Rounds(0, 15, st, p, blk), p, blk), p, blk), p, blk)
       IN MD5Blocks(blk + 1, << WAdd(st[1], r[1]), WAdd(st[2], r[2]),
                                WAdd(st[3], r[3]), WAdd(st[4], r[4]) >>, p)

\* The eight hex digits (0..15) of a state word, least significant byte first.
MD5HexWord(w) == LET b1 == w[2] % 256
                     b2 == w[2] \div 256
                     b3 == w[1] % 256
                     b4 == w[1] \div 256
                 IN << b1 \div 16, b1 % 16, b2 \div 16, b2 % 16,
                       b3 \div 16, b3 % 16, b4 \div 16, b4 % 16 >>

md5_hexdigest(msg) == LET st == MD5Blocks(0, MD5Init, MD5Pad(msg))
                      IN MD5HexWord(st[1]) \o MD5HexWord(st[2]) \o MD5HexWord(st[3]) \o MD5HexWord(st[4])

(***************************************************************************)
(* State.                                                                  *)
(***************************************************************************)
VARIABLES
  digests,          \* hashlib's digest of each string of the model (md5 is a pure function)
  clock,            \* datetime.now()
  db,               \* the database web_scraper
  collection,       \* self.collection of the scraper instance (-1: none yet)
  started,          \* the seconds at which a scraper was made
  runs,             \* how often the program was started again
  pc,               \* "init", "ready", "loop", "fetch", "extract", "save", "done", "aborted"
  mode,             \* "batch": process_urls, "single": process_single_url
  input_csv,        \* the rows of the file urls.csv
  urls,             \* the URLs of the batch
  output_file,      \* whether an output path was given
  i,                \* the position in urls of the iteration (0: before the first)
  page_content,     \* what fetch_page_content returned
  content,          \* the text handed to the extractor
  llm,              \* the language model's answer to the last request
  structured_data,  \* what extract_structured_data returned, as save_to_mongodb left it
  saved,            \* "none", or save_to_mongodb's result for position i: "ok", "failed"
  all_results,      \* the accumulator
  file,             \* the records this batch wrote to its output path (<<>>: none)
  writes,           \* writes of the output file in this batch
  log,              \* the collaborator calls of this batch: [op, pos, ok]
  batch_start       \* the clock when the batch began

vars == << digests, clock, db, collection, started, runs, pc, mode, input_csv, urls, output_file, i,
           page_content, content, llm, structured_data, saved, all_results, file, writes,
           log, batch_start >>

\* a variant that takes a trailing slash off the URL before hashing
generate_document_id_normalized(url) ==
  digests[IF Len(url) > 0 /\ url[Len(url)] = 47 THEN SubSeq(url, 1, Len(url) - 1) ELSE url]

\* hashlib.md5(url.encode()).hexdigest(); digests holds md5_hexdigest(u) of every
\* u of Urls, computed once in Init
generate_document_id(url) == digests[url]

(***************************************************************************)
(* Python and JSON values.                                                 *)
(***************************************************************************)
PyNone == [t |-> "None", v |-> 0]
EmptyDict == [k \in {} |-> 0]
JDict(f) == [t |-> "dict", v |-> f]
JList(s) == [t |-> "list", v |-> s]
JNum(n) == [t |-> "num", v |-> n]

\* bool(x)
PyTruthy(x) == CASE x.t = "None" -> FALSE
                 [] x.t = "dict" -> DOMAIN x.v # {}
                 [] x.t = "list" -> Len(x.v) > 0
                 [] x.t = "num" -> x.v # 0

\* key in x: [raises |-> TypeError?, val |-> the result]
PyIn(key, x) == CASE x.t = "dict" -> [raises |-> FALSE, val |-> key \in DOMAIN x.v]
                  [] x.t = "list" -> [raises |-> FALSE, val |-> \E k \in DOMAIN x.v : x.v[k] = key]
                  [] OTHER -> [raises |-> TRUE, val |-> FALSE]

\* d1.update(d2) and Mongo's $set on top-level fields: d2's keys win, the others stay.
DictUpdate(d1, d2) == [k \in DOMAIN d1 \cup DOMAIN d2 |-> IF k \in DOMAIN d2 THEN d2[k] ELSE d1[k]]

(***************************************************************************)
(* read_urls_from_csv: the rows are csv.reader's; blank lines are [].      *)
(***************************************************************************)
IsSpace(c) == c \in {9, 10, 11, 12, 13, 28, 29, 30, 31, 32}

RECURSIVE lstrip(_)
lstrip(s) == IF s # <<>> /\ IsSpace(Head(s)) THEN lstrip(Tail(s)) ELSE s

RECURSIVE rstrip(_)
rstrip(s) == IF s # <<>> /\ IsSpace(s[Len(s)]) THEN rstrip(SubSeq(s, 1, Len(s) - 1)) ELSE s

strip(s) == rstrip(lstrip(s))

\* the rows that are not skipped
NonEmptyRows(rows) == SelectSeq(rows, LAMBDA row : row # <<>>)

read_urls_from_csv(rows) == [k \in 1..Len(NonEmptyRows(rows)) |-> strip(NonEmptyRows(rows)[k][1])]

\* a blank line between two rows, a padded cell, a second column
CsvTwo == << <<U1>>, <<>>, <<U2padded, Junk>> >>
\* the same URL in two rows
CsvRepeat == << <<U1>>, <<U1>> >>
\* two URLs that differ by a trailing slash only
CsvSlash == << <<U1>>, <<U1slash>> >>
\* a cell of blanks
CsvBlank == << <<Blank>> >>
CsvFiles == { CsvTwo, CsvRepeat, CsvSlash, CsvBlank, <<>> }

(***************************************************************************)
(* The rendering service's answers and fetch_page_content.                 *)
(***************************************************************************)
\* no_error: no RequestException before the body is read and status 200;
\* is_json: the body parses; json: the parsed body.
FetchResponses ==
  { [no_error |-> FALSE, is_json |-> FALSE, json |-> PyNone],
    [no_error |-> TRUE, is_json |-> FALSE, json |-> PyNone] }
  \cup { [no_error |-> TRUE, is_json |-> TRUE, json |-> j] :
           j \in { JDict([data |-> JDict([content |-> "page"])]),
                   JDict([data |-> JDict([content |-> ""])]),
                   JDict([data |-> JDict(EmptyDict)]),
                   JDict([code |-> JNum(200)]),
                   JDict(EmptyDict),
                   JDict([data |-> PyNone]),
                   JList(<<"data">>),
                   JNum(5) } }

\* response.json() raises requests' JSONDecodeError, a RequestException from
\* requests 2.27 on (caught) and a plain ValueError before (not caught): new_requests.
fetch_page_content(resp, new_requests) ==
  IF ~resp.no_error THEN [raises |-> FALSE, val |-> PyNone]
  ELSE IF ~resp.is_json THEN [raises |-> ~new_requests, val |-> PyNone]
  ELSE [raises |-> FALSE, val |-> resp.json]

\* a variant without the test of 'data': any response that is not empty goes on
ContentOfAnyResponse(page) ==
  IF ~PyTruthy(page) THEN [kind |-> "skip", content |-> ""]
  ELSE IF page.t = "dict" /\ "data" \in DOMAIN page.v /\ page.v["data"].t = "dict"
          /\ "content" \in DOMAIN page.v["data"].v
       THEN [kind |-> "go", content |-> page.v["data"].v["content"]]
       ELSE [kind |-> "go", content |-> ""]

\* if page_content and 'data' in page_content: content = page_content['data'].get('content', '')
\* kind: "skip" (the condition is false), "raise" (an exception leaves the loop), "go"
ContentOf(page) ==
  IF ~PyTruthy(page) THEN [kind |-> "skip", content |-> ""]
  ELSE IF PyIn("data", page).raises THEN [kind |-> "raise", content |-> ""]
  ELSE IF ~PyIn("data", page).val THEN [kind |-> "skip", content |-> ""]
  ELSE IF page.t # "dict" THEN [kind |-> "raise", content |-> ""]
  ELSE IF page.v["data"].t # "dict" THEN [kind |-> "raise", content |-> ""]
  ELSE IF "content" \in DOMAIN page.v["data"].v
       THEN [kind |-> "go", content |-> page.v["data"].v["content"]]
       ELSE [kind |-> "go", content |-> ""]

(***************************************************************************)
(* The language model's answers and extract_structured_data.               *)
(***************************************************************************)
SchemaKeys == { "product_details", "product_content", "technical_details",
                "classification_tags", "additional_information",
                "purchase_information", "reviews_and_ratings", "metadata" }

\* the metadata block as the model returns it: the prompt's template filled in,
\* with the timestamp text of the prompt (-1: not a time read by save_to_mongodb)
LlmMeta(src) == JDict([source_url |-> src, scrape_timestamp |-> -1, schema_version |-> 1])

LlmRecord(keys, ver, meta) == JDict([k \in keys |-> IF k = "metadata" THEN meta ELSE ver])

\* what json.loads may return: the whole schema (with a source_url of the model's
\* own), a record without product_content, one with product_details alone, and
\* JSON that is no record: {}, [1], null
LlmPayloads(url) ==
  { LlmRecord(SchemaKeys, 1, LlmMeta(Junk)),
    LlmRecord(SchemaKeys \ {"product_content"}, 2, LlmMeta(url)),
    LlmRecord({"product_details"}, 3, PyNone),
    JDict(EmptyDict),
    JList(<<1>>),
    PyNone }

\* no_error: the API call returned; parses: json.loads accepts the message content
LlmResponses(url) ==
  { [no_error |-> FALSE, parses |-> FALSE, json |-> PyNone],
    [no_error |-> TRUE, parses |-> FALSE, json |-> PyNone] }
  \cup { [no_error |-> TRUE, parses |-> TRUE, json |-> j] : j \in LlmPayloads(url) }

\* a variant that fills in the schema keys the payload lacks
extract_structured_data_filled(resp) ==
  IF resp.no_error /\ resp.parses
  THEN IF resp.json.t = "dict"
       THEN JDict([k \in SchemaKeys \cup DOMAIN resp.json.v |->
                     IF k \in DOMAIN resp.json.v THEN resp.json.v[k] ELSE LlmMeta(<<>>)])
       ELSE resp.json
  ELSE PyNone

extract_structured_data(resp) ==
  IF resp.no_error /\ resp.parses THEN resp.json ELSE PyNone

(***************************************************************************)
(* The document store: a set of [coll, doc]; a doc is a function from its  *)
(* top-level fields, "_id" among them.                                     *)
(***************************************************************************)
\* a variant that inserts without looking for the _id
insert_one(store, coll, id, fields) ==
  store \cup { [coll |-> coll, doc |-> DictUpdate("_id" :> id, fields)] }

\* collection.update_one({'_id': id}, {'$set': fields}, upsert=True)
update_one(store, coll, id, fields) ==
  LET matching == { e \in store : e.coll = coll /\ e.doc["_id"] = id }
  IN IF matching = {}
     THEN store \cup { [coll |-> coll, doc |-> DictUpdate("_id" :> id, fields)] }
     ELSE LET e == CHOOSE m \in matching : TRUE
          IN (store \ {e}) \cup { [coll |-> coll, doc |-> DictUpdate(e.doc, fields)] }

\* a variant that keeps the fields the metadata has already
stamp_metadata_setdefault(meta, url, now, doc_id) ==
  DictUpdate([source_url |-> url, scrape_timestamp |-> now, _id |-> doc_id], meta)

\* data['metadata'].update({'source_url': ..., 'scrape_timestamp': ..., '_id': ...})
stamp_metadata(meta, url, now, doc_id) ==
  DictUpdate(meta, [source_url |-> url, scrape_timestamp |-> now, _id |-> doc_id])

\* save_to_mongodb(data, url) on the collection coll of store, with datetime.now() = now;
\* store_ok: update_one does not raise.  ret: the return value; data: data as the
\* call leaves it (it is changed in place); store: the store afterwards.
save_to_mongodb(data, url, now, store_ok, store, coll) ==
  LET doc_id == generate_document_id(url)
  IN IF data.t # "dict"
     THEN [ret |-> FALSE, data |-> data, store |-> store]
     ELSE LET d1 == IF "metadata" \in DOMAIN data.v THEN data
                    ELSE JDict(DictUpdate(data.v, [metadata |-> JDict(EmptyDict)]))
          IN IF d1.v["metadata"].t # "dict"
             THEN [ret |-> FALSE, data |-> d1, store |-> store]
             ELSE LET meta == JDict(stamp_metadata(d1.v["metadata"].v, url, now, doc_id))
                      d2 == JDict(DictUpdate(d1.v, [metadata |-> meta]))
                  IN IF store_ok
                     THEN [ret |-> TRUE, data |-> d2, store |-> update_one(store, coll, doc_id, d2.v)]
                     ELSE [ret |-> FALSE, data |-> d2, store |-> store]

\* a variant with one name for every run
collection_name_fixed(now) == 0

\* f"product_data_{timestamp}": the collection is named by the second it is made in
collection_name(now) == now

NoResponse == [no_error |-> FALSE, parses |-> FALSE, json |-> PyNone]

Init ==
  /\ digests = [u \in Urls |-> md5_hexdigest(u)]
  /\ clock = 0
  /\ db = {}
  /\ collection = -1
  /\ started = {}
  /\ runs = 0
  /\ pc = "init"
  /\ mode = "batch"
  /\ input_csv \in CsvFiles
  /\ urls = <<>>
  /\ output_file = FALSE
  /\ i = 0
  /\ page_content = PyNone
  /\ content = ""
  /\ llm = NoResponse
  /\ structured_data = PyNone
  /\ saved = "none"
  /\ all_results = <<>>
  /\ file = <<>>
  /\ writes = 0
  /\ log = <<>>
  /\ batch_start = 0

\* a reading t of datetime.now()
Now(t) == t \in clock..MaxClock /\ t <= clock + 1

\* the locals of process_urls / process_single_url at entry
Begin(m, us, out) ==
  /\ mode' = m
  /\ urls' = us
  /\ output_file' = out
  /\ i' = 0
  /\ page_content' = PyNone
  /\ content' = ""
  /\ llm' = NoResponse
  /\ structured_data' = PyNone
  /\ saved' = "none"
  /\ all_results' = <<>>
  /\ file' = <<>>
  /\ writes' = 0
  /\ log' = <<>>
  /\ pc' = "loop"
  /\ UNCHANGED << digests, input_csv, db, runs >>

\* UniversalScraper(): no collection_name given, the collection is named by the clock
UniversalScraper(t) ==
  /\ pc = "init"
  /\ Now(t)
  /\ clock' = t
  /\ collection' = collection_name(t)
  /\ started' = started \cup {t}
  /\ pc' = "ready"
  /\ UNCHANGED << digests, db, runs, mode, input_csv, urls, output_file, i, page_content,
                  content, llm, structured_data, saved, all_results, file, writes, log,
                  batch_start >>

\* main(): a new scraper on the collection named by the clock, then
\* process_urls('urls.csv', 'scraped_data.json')
main(t) ==
  /\ pc = "init"
  /\ Now(t)
  /\ clock' = t
  /\ collection' = collection_name(t)
  /\ started' = started \cup {t}
  /\ batch_start' = t
  /\ Begin("batch", read_urls_from_csv(input_csv), TRUE)

\* scraper.process_urls('urls.csv', output_file)
process_urls(out) ==
  /\ pc = "ready"
  /\ batch_start' = clock
  /\ Begin("batch", read_urls_from_csv(input_csv), out)
  /\ UNCHANGED << clock, collection, started >>

\* scraper.process_single_url(url, output_file)
process_single_url(url, out) ==
  /\ pc = "ready"
  /\ batch_start' = clock
  /\ Begin("single", << url >>, out)
  /\ UNCHANGED << clock, collection, started >>

\* The process has ended and the program is started again: the database and the
\* clock are what outlives it.
Restart ==
  /\ pc = "done"
  /\ runs < MaxRuns
  /\ runs' = runs + 1
  /\ collection' = -1
  /\ mode' = "batch"
  /\ urls' = <<>>
  /\ output_file' = FALSE
  /\ i' = 0
  /\ file' = <<>>
  /\ writes' = 0
  /\ log' = <<>>
  /\ batch_start' = 0
  /\ pc' = "init"
  /\ UNCHANGED << digests, clock, db, started, input_csv, page_content, content, llm,
                  structured_data, saved, all_results >>

\* for url in urls: the next URL, or the end of the loop (Finish).  The locals of
\* the iteration before are dead here: each is assigned before it is read again.
NextUrl ==
  /\ pc = "loop"
  /\ i < Len(urls)
  /\ i' = i + 1
  /\ page_content' = PyNone
  /\ content' = ""
  /\ llm' = NoResponse
  /\ structured_data' = PyNone
  /\ saved' = "none"
  /\ pc' = "fetch"
  /\ UNCHANGED << digests, clock, db, collection, started, runs, mode, input_csv, urls,
                  output_file, all_results, file, writes, log, batch_start >>

\* page_content = self.fetch_page_content(url) and the test of what it returned
Fetch(resp, new_requests) ==
  /\ pc = "fetch"
  /\ LET r == fetch_page_content(resp, new_requests)
         c == ContentOf(r.val)
         go == ~r.raises /\ c.kind = "go"
     IN /\ page_content' = r.val
        /\ content' = IF go THEN c.content ELSE ""
        /\ log' = Append(log, [op |-> "fetch", pos |-> i, ok |-> go])
        /\ pc' = IF r.raises \/ c.kind = "raise" THEN "aborted"
                 ELSE IF go THEN "extract" ELSE "loop"
  /\ UNCHANGED << digests, clock, db, collection, started, runs, mode, input_csv, urls,
                  output_file, i, llm, structured_data, saved, all_results, file, writes,
                  batch_start >>

\* a variant that calls the extractor again when it returned nothing
ExtractRetrying(resp) ==
  /\ pc = "extract"
  /\ llm' = resp
  /\ structured_data' = extract_structured_data(resp)
  /\ log' = Append(log, [op |-> "extract", pos |-> i, ok |-> PyTruthy(extract_structured_data(resp))])
  /\ pc' = IF PyTruthy(extract_structured_data(resp)) THEN "save" ELSE "extract"
  /\ UNCHANGED << digests, clock, db, collection, started, runs, mode, input_csv, urls,
                  output_file, i, page_content, content, saved, all_results, file, writes,
                  batch_start >>

\* structured_data = self.extract_structured_data(content, url) and the test of it
Extract(resp) ==
  /\ pc = "extract"
  /\ llm' = resp
  /\ structured_data' = extract_structured_data(resp)
  /\ log' = Append(log, [op |-> "extract", pos |-> i, ok |-> PyTruthy(extract_structured_data(resp))])
  /\ pc' = IF PyTruthy(extract_structured_data(resp)) THEN "save" ELSE "loop"
  /\ UNCHANGED << digests, clock, db, collection, started, runs, mode, input_csv, urls,
                  output_file, i, page_content, content, saved, all_results, file, writes,
                  batch_start >>

\* self.save_to_mongodb(structured_data, url); then all_results.append(structured_data)
\* (process_urls) or the file of the one record (process_single_url)
Save(store_ok, t) ==
  /\ pc = "save"
  /\ Now(t)
  /\ \E r \in { save_to_mongodb(structured_data, urls[i], t, store_ok, db, collection) } :
        /\ db' = r.store
        /\ structured_data' = r.data
        /\ saved' = IF r.ret THEN "ok" ELSE "failed"
        /\ log' = Append(log, [op |-> "save", pos |-> i, ok |-> r.ret])
        /\ IF mode = "batch"
           THEN /\ all_results' = Append(all_results, r.data)
                /\ UNCHANGED << file, writes >>
           ELSE /\ file' = IF output_file THEN << r.data >> ELSE file
                /\ writes' = IF output_file THEN writes + 1 ELSE writes
                /\ UNCHANGED all_results
  /\ clock' = t
  /\ pc' = "loop"
  /\ UNCHANGED << digests, collection, started, runs, mode, input_csv, urls, output_file, i,
                  page_content, content, llm, batch_start >>

\* the loop is over: if output_file: self.save_results(all_results, output_file),
\* and the call returns
Finish ==
  /\ pc = "loop"
  /\ i = Len(urls)
  /\ file' = IF mode = "batch" /\ output_file THEN all_results ELSE file
  /\ writes' = IF mode = "batch" /\ output_file THEN writes + 1 ELSE writes
  /\ page_content' = PyNone
  /\ content' = ""
  /\ llm' = NoResponse
  /\ structured_data' = PyNone
  /\ saved' = "none"
  /\ all_results' = <<>>
  /\ pc' = "done"
  /\ UNCHANGED << digests, clock, db, collection, started, runs, mode, input_csv, urls,
                  output_file, i, log, batch_start >>

Next ==
  \/ \E t \in 0..MaxClock : UniversalScraper(t)
  \/ \E t \in 0..MaxClock : main(t)
  \/ \E out \in BOOLEAN : process_urls(out)
  \/ \E url \in {U1, U2padded}, out \in BOOLEAN : process_single_url(url, out)
  \/ NextUrl
  \/ \E resp \in FetchResponses, new_requests \in BOOLEAN : Fetch(resp, new_requests)
  \/ pc = "extract" /\ \E resp \in LlmResponses(urls[i]) : Extract(resp)
  \/ \E store_ok \in BOOLEAN, t \in 0..MaxClock : Save(store_ok, t)
  \/ Finish

\* One execution of the program, or of a script that makes a scraper and one call.
Spec == Init /\ [][Next]_vars

(***************************************************************************)
(* The program run again and again over the same urls.csv, every stage     *)
(* succeeding: the page is fetched with its content, the model returns a   *)
(* record of the schema, the store takes the write.                        *)
(***************************************************************************)
FetchSucceeds == \E resp \in { r \in FetchResponses : r.no_error /\ r.is_json /\ ContentOf(r.json).kind = "go" } : Fetch(resp, TRUE)

ExtractSucceeds == pc = "extract" /\ \E resp \in { r \in LlmResponses(urls[i]) : r.parses /\ r.json.t = "dict" /\ SchemaKeys \subseteq DOMAIN r.json.v } : Extract(resp)

SaveSucceeds == \E t \in 0..MaxClock : Save(TRUE, t)

NextRuns ==
  \/ \E t \in 0..MaxClock : main(t)
  \/ NextUrl
  \/ FetchSucceeds
  \/ ExtractSucceeds
  \/ SaveSucceeds
  \/ Finish
  \/ Restart

SpecRuns == Init /\ [][NextRuns]_vars

(***************************************************************************)
(* Properties.                                                             *)
(***************************************************************************)
Range(s) == { s[k] : k \in DOMAIN s }

\* the documents of collection coll whose _id is id
Docs(coll, id) == { e \in db : e.coll = coll /\ e.doc["_id"] = id }

\* the positions of the batch whose call op returned with success
Succeeded(op) == { log[k].pos : k \in { n \in DOMAIN log : log[n].op = op /\ log[n].ok } }

\* the positions of the batch at which op was called
Called(op) == { log[k].pos : k \in { n \in DOMAIN log : log[n].op = op } }

\* the first-column cell of the CSV row the URL at position p was read from
RawCell(p) == NonEmptyRows(input_csv)[p][1]

Rank(op) == CASE op = "fetch" -> 1 [] op = "extract" -> 2 [] op = "save" -> 3

\* C1: in every collection no two documents share an _id, whatever was saved
\* before; every URL saved with success in this batch has exactly one document
\* under its identity in the scraper's collection, and right after a successful
\* save_to_mongodb that document carries the scrape_timestamp of this call.
C1_IdempotentUpsert ==
  /\ \A e1, e2 \in db :
       (e1.coll = e2.coll /\ e1.doc["_id"] = e2.doc["_id"]) => e1 = e2
  /\ \A p \in Succeeded("save") :
       Cardinality(Docs(collection, generate_document_id(urls[p]))) = 1
  /\ saved = "ok" =>
       \A e \in Docs(collection, generate_document_id(urls[i])) :
         e.doc["metadata"].v["scrape_timestamp"] = clock

\* the URL of this position was saved with success at an earlier position too
C1_Witness ==
  /\ saved = "ok"
  /\ \E p \in Succeeded("save") : p < i /\ urls[p] = urls[i]
  /\ Cardinality(Docs(collection, generate_document_id(urls[i]))) = 1

\* C2: right after a successful save_to_mongodb the document under the URL's
\* identity is exactly the stamped record (with its _id): a full replace.
C2_FullReplace ==
  saved = "ok" =>
    \A e \in Docs(collection, generate_document_id(urls[i])) :
      e.doc = DictUpdate("_id" :> generate_document_id(urls[i]), structured_data.v)

\* C3 as stated: the whole database holds at most one document per identity.
C3_OneDocumentPerIdentity ==
  \A e1, e2 \in db : e1.doc["_id"] = e2.doc["_id"] => e1 = e2

\* C3 amended: every document lies in the collection named by the second a run
\* started in; when a run is over, each URL of urls.csv has exactly one document
\* in the collection of each such second, so as many documents as there were
\* distinct start seconds - one for runs started in the same second.
C3_OnePerStartSecond ==
  /\ \A e \in db : \E t \in started : e.coll = collection_name(t)
  /\ pc = "done" =>
       \A u \in Range(read_urls_from_csv(input_csv)) :
         /\ \A t \in started : Cardinality(Docs(collection_name(t), generate_document_id(u))) = 1
         /\ Cardinality({ e \in db : e.doc["_id"] = generate_document_id(u) }) = Cardinality(started)

\* three runs are over, two of them started in the same second
C3_Witness ==
  /\ pc = "done"
  /\ runs = 2
  /\ Cardinality(started) = 2
  /\ urls # <<>>

\* C4: no batch is left by an exception, and when it is over every URL whose
\* fetch, extraction and store write succeeded has a document.
C4_FaultIsolation ==
  /\ pc # "aborted"
  /\ pc = "done" =>
       /\ i = Len(urls)
       /\ \A p \in Succeeded("fetch") \cap Succeeded("extract") \cap Succeeded("save") :
            Docs(collection, generate_document_id(urls[p])) # {}

\* C5: different strings have different identities (a trailing slash, the case,
\* the order of the query among the differences); every document is stored under
\* the identity of the URL stamped in it, which save_to_mongodb stamps too.
C5_IdentityOfUrl ==
  /\ \A u1, u2 \in Urls : generate_document_id(u1) = generate_document_id(u2) <=> u1 = u2
  /\ \A e \in db :
       /\ e.doc["_id"] = generate_document_id(e.doc["metadata"].v["source_url"])
       /\ e.doc["metadata"].v["_id"] = e.doc["_id"]
  /\ saved = "ok" => structured_data.v["metadata"].v["_id"] = generate_document_id(urls[i])

\* two URLs that differ by the trailing slash are stored, under two identities
C5_Witness ==
  /\ \E e \in db : e.doc["metadata"].v["source_url"] = U1
  /\ \E e \in db : e.doc["metadata"].v["source_url"] = U1slash
  /\ Cardinality({ e.doc["_id"] : e \in db }) = 2

\* C6 as stated: the extractor is called only with content text that is not empty,
\* and the store write only with a record.
C6_SkipRule ==
  /\ pc = "extract" => content # ""
  /\ pc = "save" => PyTruthy(structured_data)

\* C6 amended: the extractor is called only when the fetch returned a mapping
\* with a mapping under 'data', with the content text of it or '' when there is
\* none; save_to_mongodb is called only with a record that is not empty; a
\* position whose fetch did not succeed has no extract call, one whose
\* extraction did not succeed no save call.
C6_SkipRuleData ==
  /\ pc = "extract" =>
       /\ page_content.t = "dict"
       /\ "data" \in DOMAIN page_content.v
       /\ page_content.v["data"].t = "dict"
       /\ content = IF "content" \in DOMAIN page_content.v["data"].v
                    THEN page_content.v["data"].v["content"] ELSE ""
  /\ pc = "save" => PyTruthy(structured_data)
  /\ Called("extract") \subseteq Succeeded("fetch")
  /\ Called("save") \subseteq Succeeded("extract")

\* the extractor is about to be called with '' for a response without content text
C6_Witness ==
  /\ pc = "extract"
  /\ content = ""
  /\ "content" \notin DOMAIN page_content.v["data"].v

\* C7 as stated: a record handed to save_to_mongodb has the eight schema keys.
C7_SchemaShape ==
  (pc = "save" \/ saved # "none") =>
    structured_data.t = "dict" /\ SchemaKeys \subseteq DOMAIN structured_data.v

\* C7 amended: the record returned is the parsed payload as it is, so it has the
\* eight keys exactly when the payload has; save_to_mongodb adds metadata when it
\* is missing and changes no other top-level field.
C7_RecordIsPayload ==
  /\ pc = "save" =>
       /\ llm.no_error /\ llm.parses
       /\ structured_data = llm.json
  /\ (saved # "none" /\ structured_data.t = "dict") =>
       /\ llm.json.t = "dict"
       /\ DOMAIN structured_data.v = DOMAIN llm.json.v \cup {"metadata"}
       /\ \A k \in DOMAIN llm.json.v \ {"metadata"} : structured_data.v[k] = llm.json.v[k]

\* a record without all the schema keys is about to be saved
C7_Witness ==
  /\ pc = "save"
  /\ structured_data.t = "dict"
  /\ ~(SchemaKeys \subseteq DOMAIN structured_data.v)

\* C8 as stated: after a successful save the stamped source_url is the CSV cell
\* as it is in the file, and the timestamp is not before the start of the batch.
C8_StampsCell ==
  (saved = "ok" /\ mode = "batch") =>
    /\ structured_data.v["metadata"].v["source_url"] = RawCell(i)
    /\ structured_data.v["metadata"].v["scrape_timestamp"] >= batch_start

\* C8 amended: the stamped source_url is the URL the call was given, which for a
\* batch is the cell with the white space around it stripped; the timestamp is
\* the clock of this call, not before the start of the batch; the stored
\* document carries the same metadata.
C8_StampsStrippedCell ==
  saved = "ok" =>
    /\ structured_data.v["metadata"].v["source_url"] = urls[i]
    /\ mode = "batch" => urls[i] = strip(RawCell(i))
    /\ structured_data.v["metadata"].v["scrape_timestamp"] = clock
    /\ clock >= batch_start
    /\ \A e \in Docs(collection, generate_document_id(urls[i])) :
         e.doc["metadata"] = structured_data.v["metadata"]

\* a padded cell, and a source_url of the model's own, were stamped over
C8_Witness ==
  /\ saved = "ok"
  /\ mode = "batch"
  /\ RawCell(i) = U2padded
  /\ urls[i] = U2
  /\ llm.json.v["metadata"].v["source_url"] = Junk
  /\ clock > batch_start

\* C9: with an output path the file is written once, when the loop is over, and
\* once process_urls has ended it holds one record for each URL whose fetch and
\* extraction succeeded, whatever the store write did.
C9_ExportOnceAtEnd ==
  (mode = "batch" /\ output_file) =>
    /\ writes <= 1
    /\ writes = 1 => pc = "done"
    /\ pc \in {"done", "aborted"} =>
         /\ writes = 1
         /\ Len(file) = Cardinality(Succeeded("fetch") \cap Succeeded("extract"))

\* C10: the calls of a batch are in the order of the positions, fetch before
\* extract before save at one position and each at most once; no position is left
\* out; a call that fails is the last of its position.
C10_SequentialSingleAttempt ==
  /\ \A k \in 1..(Len(log) - 1) :
       /\ log[k].pos <= log[k + 1].pos
       /\ log[k].pos = log[k + 1].pos =>
            /\ Rank(log[k].op) + 1 = Rank(log[k + 1].op)
            /\ log[k].ok
  /\ \A k \in DOMAIN log : log[k].pos \in 1..i
  /\ \A p \in 1..(i - 1) : p \in Called("fetch")
  /\ \A k \in DOMAIN log :
       (k = 1 \/ log[k - 1].pos # log[k].pos) => log[k].op = "fetch"

\* a failed extraction at the first URL, then the second URL through to its save
C10_Witness ==
  /\ Len(log) = 5
  /\ log[2].op = "extract" /\ ~log[2].ok
  /\ log[5].op = "save" /\ log[5].pos = 2
====
